---- MODULE Spec2Model ----
(***************************************************************************)
(* A model of automation/news_agent.py: the curation pipeline that turns   *)
(* the generator's JSON payload into the published list of stories         *)
(* (clean_text, the validator loop, the fallback merge, rebalance_by_domain *)
(* and the save-and-push tail).                                            *)
(*                                                                         *)
(* Text.  A Python str is modelled as a finite sequence of atoms.  An atom *)
(* is a piece of text that the program's regular expressions and splits    *)
(* never look inside: a whitespace character (" ", "\t"), a punctuation    *)
(* character (":", "-", "/", ".", "["), or a word ("reuters", "Analysis",  *)
(* "s." - a word that ends a sentence).  The concatenation of the atoms is *)
(* the string.  Every operator below works on the atoms the way the Python *)
(* code works on the characters.                                           *)
(***************************************************************************)
EXTENDS Integers, Sequences, FiniteSets, TLC

(***************************************************************************)
(* Atoms and Python's str primitives                                       *)
(***************************************************************************)

\* str.isspace on one atom (the \s of the regular expressions)
IsSpace(a) == a \in {" ", "\t"}

\* str.lower on one atom: the words of the model that carry capitals
Lower(a) ==
  CASE a = "Analysis" -> "analysis"
    [] a = "Opinion"  -> "opinion"
    [] a = "Reuters"  -> "reuters"
    [] a = "Example"  -> "example"
    [] a = "HTTPS"    -> "https"
    [] OTHER          -> a

\* str.lower
LowerText(t) == [i \in 1..Len(t) |-> Lower(t[i])]

StartsWith(t, p) == Len(t) >= Len(p) /\ SubSeq(t, 1, Len(p)) = p

EndsWith(t, p) == Len(t) >= Len(p) /\ SubSeq(t, Len(t) - Len(p) + 1, Len(t)) = p

Drop(t, n) == SubSeq(t, n + 1, Len(t))

RECURSIVE LStripSet(_, _)
LStripSet(t, chars) ==
  IF t # <<>> /\ Head(t) \in chars THEN LStripSet(Tail(t), chars) ELSE t

RECURSIVE RStripSet(_, _)
RStripSet(t, chars) ==
  IF t # <<>> /\ t[Len(t)] \in chars
  THEN RStripSet(SubSeq(t, 1, Len(t) - 1), chars)
  ELSE t

WHITESPACE == {" ", "\t"}

\* str.strip()
strip(t) == RStripSet(LStripSet(t, WHITESPACE), WHITESPACE)

\* str.strip("/")
strip_slash(t) == RStripSet(LStripSet(t, {"/"}), {"/"})

\* str.split(sep) for a one-atom separator: the pieces between the separators
RECURSIVE SplitAcc(_, _, _)
SplitAcc(t, sep, cur) ==
  IF t = <<>> THEN <<cur>>
  ELSE IF Head(t) = sep THEN <<cur>> \o SplitAcc(Tail(t), sep, <<>>)
  ELSE SplitAcc(Tail(t), sep, Append(cur, Head(t)))

split(t, sep) == SplitAcc(t, sep, <<>>)

\* sep.join(parts)
RECURSIVE join(_, _)
join(parts, sep) ==
  IF parts = <<>> THEN <<>>
  ELSE IF Len(parts) = 1 THEN parts[1]
  ELSE parts[1] \o <<sep>> \o join(Tail(parts), sep)

\* The last n elements of a sequence: parts[-n:]
LastN(s, n) == SubSeq(s, Len(s) - n + 1, Len(s))

(***************************************************************************)
(* JSON values of a record's fields.  A field is a text, absent (modelled   *)
(* as the empty text: the code reads every field through `x or ""`, which   *)
(* treats None, a missing key and "" alike), or a value that is not a       *)
(* string; NUMBER stands for a non-zero JSON number such as 2024.           *)
(***************************************************************************)
NUMBER == <<"#2024">>

IsStr(v) == v # NUMBER

\* str(v)
str(v) == IF v = NUMBER THEN <<"2024">> ELSE v

\* Python's `a or b` on field values
Or(a, b) == IF a # <<>> THEN a ELSE b

(***************************************************************************)
(* clean_text                                                              *)
(***************************************************************************)

\* The alternatives of the regular expression, in its order
BAD_PREFIXES ==
  << <<"analysis">>, <<"opinion">>, <<"report">>, <<"explainer">>,
     <<"oddity">>, <<"update">>, <<"breaking">>,
     <<"economic", " ", "report">>, <<"culture", " ", "watch">> >>

\* The character class [:\-–] ("--" stands for the en dash)
SEPARATORS == {":", "-", "--"}

\* re.sub(r"^\s*(labels)\s*[:\-–]\s*", "", s, flags=re.I): the match is
\* leading whitespace, one label (letter case ignored; the blank inside a
\* two-word label is one literal space), whitespace, one separator,
\* whitespace.  No label is a prefix of another, so at most one matches.
strip_prefix(s) ==
  LET a    == LStripSet(s, WHITESPACE)
      labs == {i \in 1..Len(BAD_PREFIXES) :
                 /\ Len(a) >= Len(BAD_PREFIXES[i])
                 /\ LowerText(SubSeq(a, 1, Len(BAD_PREFIXES[i]))) = BAD_PREFIXES[i]}
  IN  IF labs = {} THEN s
      ELSE LET p == BAD_PREFIXES[CHOOSE i \in labs : \A j \in labs : i <= j]
               b == LStripSet(Drop(a, Len(p)), WHITESPACE)
           IN  IF b # <<>> /\ Head(b) \in SEPARATORS
               THEN LStripSet(Tail(b), WHITESPACE)
               ELSE s

\* re.sub(r"\s+", " ", s): every maximal run of whitespace becomes one space
RECURSIVE collapse_ws(_)
collapse_ws(t) ==
  IF t = <<>> THEN <<>>
  ELSE IF IsSpace(Head(t)) THEN <<" ">> \o collapse_ws(LStripSet(t, WHITESPACE))
  ELSE <<Head(t)>> \o collapse_ws(Tail(t))

clean_text(s) == strip(collapse_ws(strip_prefix(str(s))))

(***************************************************************************)
(* Sentence capping: re.split(r"(?<=[.!?])\s+", details), keep 4            *)
(***************************************************************************)

\* the atoms whose last character is one of . ! ?
EndsSentence(a) == a \in {"s.", "s!", "s?"}

RECURSIVE SentAcc(_, _, _)
SentAcc(t, cur, prev) ==
  IF t = <<>> THEN <<cur>>
  ELSE IF IsSpace(Head(t)) /\ prev # "" /\ EndsSentence(prev)
       THEN <<cur>> \o SentAcc(LStripSet(t, WHITESPACE), <<>>, " ")
       ELSE SentAcc(Tail(t), Append(cur, Head(t)), Head(t))

split_sentences(d) == SentAcc(d, <<>>, "")

MAX_SENTENCES == 4

cap_sentences(d) ==
  LET parts == split_sentences(d)
  IN  IF Len(parts) > MAX_SENTENCES
      THEN join(SubSeq(parts, 1, MAX_SENTENCES), " ")
      ELSE d

(***************************************************************************)
(* urllib.parse.urlparse, on the atoms of a URL.  The model's URLs are      *)
(* built from words, ".", "-", ":", "/", "[" and whitespace; they carry no  *)
(* "?", "#", ";" or "]", so query, fragment and params are always empty     *)
(* and the only failure is ValueError("Invalid IPv6 URL").                  *)
(***************************************************************************)

\* the atoms that are not made of scheme characters (letters, digits, + - .)
NON_SCHEME_ATOMS == {"/", ":", "[", " ", "\t", "--", "s?", "s!"}

\* url[0].isalpha(): the atom starts with a letter
StartsWithLetter(a) ==
  a \notin (NON_SCHEME_ATOMS \cup {".", "-", "0", "1", "127", "2024", "#2024"})

RECURSIVE Remove(_, _)
Remove(t, a) ==
  IF t = <<>> THEN <<>>
  ELSE IF Head(t) = a THEN Remove(Tail(t), a)
  ELSE <<Head(t)>> \o Remove(Tail(t), a)

\* str.find of a one-atom needle: the index of its first occurrence, 0 if none
Find(t, a) ==
  IF \E i \in 1..Len(t) : t[i] = a
  THEN CHOOSE i \in 1..Len(t) : t[i] = a /\ \A j \in 1..(i - 1) : t[j] # a
  ELSE 0

\* the parse result: urlsplit raises ValueError("Invalid IPv6 URL") when the
\* netloc holds "[" without "]"; ok is FALSE then
ParseResult(scheme, netloc, path) ==
  [ok     |-> ~(\E j \in 1..Len(netloc) : netloc[j] = "["),
   scheme |-> scheme,
   netloc |-> netloc,
   path   |-> path]

\* url[:2] == "//": the netloc runs to the first "/" after it, the path is the rest
split_netloc(scheme, url) ==
  IF ~StartsWith(url, <<"/", "/">>) THEN ParseResult(scheme, <<>>, url)
  ELSE LET k == Find(Drop(url, 2), "/")
       IN  IF k = 0 THEN ParseResult(scheme, Drop(url, 2), <<>>)
           ELSE ParseResult(scheme, SubSeq(url, 3, k + 1), Drop(url, k + 1))

\* the text before the first ":" is the scheme when it starts with a letter and
\* holds scheme characters only
has_scheme(url) ==
  LET i == Find(url, ":")
  IN  /\ i > 1
      /\ StartsWithLetter(url[1])
      /\ \A j \in 1..(i - 1) : url[j] \notin NON_SCHEME_ATOMS

split_scheme(url) ==
  IF has_scheme(url)
  THEN split_netloc(LowerText(SubSeq(url, 1, Find(url, ":") - 1)), Drop(url, Find(url, ":")))
  ELSE split_netloc(<<>>, url)

\* the url loses its leading whitespace and its tabs before it is split
urlparse(source) == split_scheme(Remove(LStripSet(source, WHITESPACE), "\t"))

(***************************************************************************)
(* Domains                                                                 *)
(***************************************************************************)

\* "a.b" and "a.b.c" as texts
D2(a, b) == <<a, ".", b>>

D3(a, b, c) == <<a, ".", b, ".", c>>

ALLOWED_DOMAINS ==
  { D2("reuters", "com"), D2("wsj", "com"), D2("bbc", "com"), D3("bbc", "co", "uk"),
    D2("thehill", "com"), D2("nypost", "com"), D2("nationalreview", "com"),
    D2("apnews", "com"), D2("bloomberg", "com"), D2("ft", "com"), D2("politico", "com"),
    D2("washingtonexaminer", "com"), D2("foxnews", "com"), D2("newsmax", "com"),
    D2("cbsnews", "com"), D3("abcnews", "go", "com"), D2("nbcnews", "com"),
    D2("axios", "com"), D2("nytimes", "com"), D2("theguardian", "com"),
    D2("marketwatch", "com"), D2("businessinsider", "com"),
    D2("techcrunch", "com"), D2("arstechnica", "com"), D2("wired", "com"),
    D2("technologyreview", "com"), D2("venturebeat", "com"), D2("ieee", "org"),
    D2("openai", "com"), D2("statnews", "com"), D2("nature", "com"),
    D2("sciencedaily", "com"),
    D2("defensenews", "com"), D2("militarytimes", "com"), D2("al-monitor", "com"),
    D2("city-journal", "org"), D2("tabletmag", "com"), D2("thefp", "com"),
    D2("thefederalist", "com"), D2("justthenews", "com"), D2("quillette", "com"),
    D2("coindesk", "com") }

DISALLOWED ==
  { D2("example", "com"), <<"localhost">>, <<"127", ".", "0", ".", "0", ".", "1">> }

\* host_ok with the allowlist test dropped
host_ok_any(host) == host # <<>>

host_ok(host) ==
  /\ host # <<>>
  /\ \E d \in ALLOWED_DOMAINS : host = d \/ EndsWith(host, <<".">> \o d)

base_domain(host) ==
  LET parts == split(LowerText(host), ".")
      n     == Len(parts)
  IN  IF /\ n >= 3
         /\ parts[n - 1] \in {<<"co">>, <<"com">>, <<"org">>, <<"net">>}
         /\ parts[n] \in {<<"uk">>, <<"au">>}
      THEN join(LastN(parts, 3), ".")
      ELSE IF n >= 2 THEN join(LastN(parts, 2), ".")
      ELSE LowerText(host)

(***************************************************************************)
(* Candidate mappings and output records.  An element of the parsed array   *)
(* is a mapping (isdict) with the keys the code reads, or something that is *)
(* not a mapping.  An output record is the dict {"title", "details",        *)
(* "source"} the code builds; `via` is a history field of the model (it is  *)
(* not serialized) that remembers which loop built the record.              *)
(***************************************************************************)
Mapping(t, d, sm, s, u) ==
  [isdict |-> TRUE, title |-> t, details |-> d, summary |-> sm, source |-> s, url |-> u]

NotAMapping ==
  [isdict |-> FALSE, title |-> <<>>, details |-> <<>>, summary |-> <<>>,
   source |-> <<>>, url |-> <<>>]

Record(t, d, s, v) == [title |-> t, details |-> d, source |-> s, via |-> v]

Min(a, b) == IF a <= b THEN a ELSE b

\* counts.get(d, 0), the dict of counters kept as the list of its increments
Count(keys, d) == Cardinality({i \in 1..Len(keys) : keys[i] = d})

(***************************************************************************)
(* The validator loop, lines 183-207                                       *)
(***************************************************************************)

\* (item.get("source") or item.get("url") or "").strip() raises AttributeError
\* when the value is not a string; nothing catches it
ValidateRaises(item) == item.isdict /\ ~IsStr(Or(item.source, item.url))

\* validate_item without the scheme test of line 201
validate_item_any_scheme(item) ==
  IF ~item.isdict THEN <<>>
  ELSE
    LET title   == clean_text(item.title)
        details == clean_text(Or(item.details, item.summary))
        source  == strip(Or(item.source, item.url))
        p       == urlparse(source)
    IN  IF title = <<>> \/ details = <<>> \/ source = <<>> THEN <<>>
        ELSE IF ~p.ok THEN <<>>
        ELSE IF p.netloc = <<>> \/ strip_slash(p.path) = <<>> THEN <<>>
        ELSE IF p.netloc \in DISALLOWED \/ ~host_ok(LowerText(p.netloc)) THEN <<>>
        ELSE << Record(title, cap_sentences(details), source, "validator") >>

\* The records one item appends to `validated`: none or one
validate_item(item) ==
  IF ~item.isdict THEN <<>>
  ELSE
    LET title   == clean_text(item.title)
        details == clean_text(Or(item.details, item.summary))
        source  == strip(Or(item.source, item.url))
        p       == urlparse(source)
    IN  IF title = <<>> \/ details = <<>> \/ source = <<>> THEN <<>>
        ELSE IF ~p.ok THEN <<>>
        ELSE IF p.scheme \notin {<<"http">>, <<"https">>} THEN <<>>
        ELSE IF p.netloc = <<>> \/ strip_slash(p.path) = <<>> THEN <<>>
        ELSE IF p.netloc \in DISALLOWED \/ ~host_ok(LowerText(p.netloc)) THEN <<>>
        ELSE << Record(title, cap_sentences(details), source, "validator") >>

RECURSIVE validate_all(_)
validate_all(data) ==
  IF data = <<>> THEN <<>>
  ELSE validate_item(Head(data)) \o validate_all(Tail(data))

(***************************************************************************)
(* The fallback merge, lines 209-232                                       *)
(***************************************************************************)
MIN_PUBLISH == 8

fallback_item(item) ==
  IF ~item.isdict THEN <<>>
  ELSE
    LET t == clean_text(item.title)
        d == clean_text(Or(item.details, item.summary))
        s == strip(Or(item.source, item.url))
    IN  IF t = <<>> \/ d = <<>> \/ s = <<>> THEN <<>>
        ELSE << Record(t, cap_sentences(d), s, "fallback") >>

RECURSIVE fallback_all(_)
fallback_all(data) ==
  IF data = <<>> THEN <<>>
  ELSE fallback_item(Head(data)) \o fallback_all(Tail(data))

\* merge that puts the fallback records in front
RECURSIVE merge_front(_, _)
merge_front(out, fallback) ==
  IF fallback = <<>> THEN out
  ELSE LET it == Head(fallback)
       IN  IF \E i \in 1..Len(out) : out[i].source = it.source
           THEN merge_front(out, Tail(fallback))
           ELSE merge_front(<<it>> \o out, Tail(fallback))

\* for it in fallback: if it["source"] not in seen: out.append(it); seen.add(...)
RECURSIVE merge(_, _)
merge(out, fallback) ==
  IF fallback = <<>> THEN out
  ELSE LET it == Head(fallback)
       IN  IF \E i \in 1..Len(out) : out[i].source = it.source
           THEN merge(out, Tail(fallback))
           ELSE merge(Append(out, it), Tail(fallback))

\* the fallback block never entered
fallback_merge_off(validated, data) == validated

\* lines 211-232: `out` after the fallback block
fallback_merge(validated, data) ==
  IF Len(validated) < MIN_PUBLISH
  THEN merge(validated, fallback_all(data))
  ELSE validated

(***************************************************************************)
(* rebalance_by_domain, lines 69-108.  The loop state is picked, counts     *)
(* (keys), used, whether the backfill loop hit its break (done) and whether *)
(* a str method was called on a value that is not a string (raised).        *)
(***************************************************************************)
EmptyPick ==
  [picked |-> <<>>, keys |-> <<>>, used |-> {}, done |-> FALSE, raised |-> FALSE]

\* pick_valid without the per-domain test of line 77
pick_valid_nocap(acc, it, per_cap) ==
  LET p == urlparse(it.source)
      d == base_domain(p.netloc)
  IN  IF ~p.ok THEN acc
      ELSE [acc EXCEPT !.picked = Append(@, it),
                       !.keys   = Append(@, d),
                       !.used   = @ \cup {it.source}]

\* one iteration of `for it in valid`
pick_valid(acc, it, per_cap) ==
  LET p == urlparse(it.source)
      d == base_domain(p.netloc)
  IN  IF ~p.ok THEN acc
      ELSE IF Count(acc.keys, d) >= per_cap THEN acc
      ELSE [acc EXCEPT !.picked = Append(@, it),
                       !.keys   = Append(@, d),
                       !.used   = @ \cup {it.source}]

RECURSIVE pick_all_valid(_, _, _)
pick_all_valid(acc, valid, per_cap) ==
  IF valid = <<>> THEN acc
  ELSE pick_all_valid(pick_valid(acc, Head(valid), per_cap), Tail(valid), per_cap)

\* one iteration of `for it in raw_pool`
backfill(acc, it, target, per_cap) ==
  IF ~it.isdict THEN acc
  ELSE IF \/ ~IsStr(Or(it.source, it.url))
          \/ ~IsStr(it.title)
          \/ ~IsStr(Or(it.details, it.summary))
       THEN [acc EXCEPT !.raised = TRUE]
  ELSE
    LET s    == strip(Or(it.source, it.url))
        t    == strip(it.title)
        dsc  == strip(Or(it.details, it.summary))
        p    == urlparse(s)
        host == p.netloc
        bd   == base_domain(host)
    IN  IF t = <<>> \/ dsc = <<>> \/ s = <<>> \/ s \in acc.used THEN acc
        ELSE IF ~p.ok THEN acc
        ELSE IF host = <<>> \/ ~host_ok(host) THEN acc
        ELSE IF Count(acc.keys, bd) >= per_cap THEN acc
        ELSE [acc EXCEPT !.picked = Append(@, Record(t, cap_sentences(dsc), s, "backfill")),
                         !.keys   = Append(@, bd),
                         !.used   = @ \cup {s},
                         !.done   = Len(acc.picked) + 1 >= target]

\* the backfill loop leaving after its first candidate
backfill_all_first(acc, raw_pool, target, per_cap) ==
  IF raw_pool = <<>> \/ acc.done \/ acc.raised THEN acc
  ELSE backfill(acc, Head(raw_pool), target, per_cap)

RECURSIVE backfill_all(_, _, _, _)
backfill_all(acc, raw_pool, target, per_cap) ==
  IF raw_pool = <<>> \/ acc.done \/ acc.raised THEN acc
  ELSE backfill_all(backfill(acc, Head(raw_pool), target, per_cap),
                    Tail(raw_pool), target, per_cap)

\* the loops of lines 71-107: the state when the function reaches its return
rebalance_loops(valid, raw_pool, target, per_cap) ==
  LET a == pick_all_valid(EmptyPick, valid, per_cap)
  IN  IF Len(a.picked) < target
      THEN backfill_all(a, raw_pool, target, per_cap)
      ELSE a

\* the return without the slice
truncate_none(picked, target) == picked

\* picked[:target]
truncate(picked, target) == SubSeq(picked, 1, Min(Len(picked), target))

\* the call: it raises, or returns picked[:target]
rebalance_by_domain(valid, raw_pool, target, per_cap) ==
  LET a == rebalance_loops(valid, raw_pool, target, per_cap)
  IN  [raised |-> a.raised, result |-> truncate(a.picked, target)]

TARGET == 20

PER_DOMAIN_CAP == 3

FINAL_CAP == 20

\* json.dump(out): the array of {title, details, source} objects, in order
Serialize(out) ==
  [i \in 1..Len(out) |->
     [title |-> out[i].title, details |-> out[i].details, source |-> out[i].source]]

(***************************************************************************)
(* The inputs.  The generator's answer is external: the model draws what    *)
(* json.loads makes of it from a family of payloads.  A batch is a short    *)
(* sequence over Universe (every combination) followed by a run of well     *)
(* formed stories, long enough to reach MIN_PUBLISH and TARGET.             *)
(***************************************************************************)

\* scheme://host/path as a text
Url(scheme, host, path) == <<scheme, ":", "/", "/">> \o host \o path

Story(source) == Mapping(<<"w">>, <<"s.">>, <<>>, source, <<>>)

FiveSentences == <<"s.", " ", "s?", "\t", " ", "s.", " ", "s.", " ", "w", " ", "s.">>

Universe ==
  { Story(Url("https", D2("reuters", "com"), <<"/", "a">>)),
    Story(Url("https", D2("Reuters", "com"), <<"/", "c">>)),
    Story(Url("https", D3("www", "bbc", "co") \o <<".", "uk">>, <<"/", "a">>)),
    Story(Url("https", D2("example", "com"), <<"/", "a">>)),
    Story(Url("https", D2("Example", "com"), <<"/", "a">>)),
    Story(Url("https", D2("not-allowed", "test"), <<"/", "a">>)),
    Story(Url("https", D2("reuters", "com"), <<>>)),
    Story(Url("ftp", D2("nypost", "com"), <<"/", "a">>)),
    Story(Url("https", <<"[">> \o D2("reuters", "com"), <<"/", "a">>)),
    Mapping(<<"Analysis", ":", " ", "w">>, <<>>, FiveSentences, <<>>,
            <<" ">> \o Url("HTTPS", D2("apnews", "com"), <<"/", "a", "/">>) \o <<" ">>),
    Mapping(<<"opinion", ":">>, <<"s.">>, <<>>,
            Url("https", D2("wsj", "com"), <<"/", "a">>), <<>>),
    NotAMapping,
    Mapping(<<"w">>, <<"s.">>, <<>>, NUMBER, <<>>),
    Mapping(NUMBER, <<"s.">>, <<>>, Url("https", D2("reuters", "com"), <<"/", "d">>), <<>>) }

MaxBase == 2

MaxFill == 21

Bases == UNION {[1..n -> Universe] : n \in 0..MaxBase}

PathNames ==
  <<"p1", "p2", "p3", "p4", "p5", "p6", "p7", "p8", "p9", "p10", "p11", "p12",
    "p13", "p14", "p15", "p16", "p17", "p18", "p19", "p20", "p21", "p22", "p23", "p24">>

DiverseHosts ==
  << D2("wsj", "com"), D2("thehill", "com"), D2("nypost", "com"), D2("apnews", "com"),
     D2("bloomberg", "com"), D2("ft", "com"), D2("politico", "com") >>

FillHost(kind, i) ==
  CASE kind = "diverse" -> DiverseHosts[((i - 1) % Len(DiverseHosts)) + 1]
    [] kind = "nypost"  -> D2("nypost", "com")
    [] OTHER            -> D2("blog", "test")

\* n stories with pairwise distinct sources
Filler(kind, n) ==
  [i \in 1..n |-> Story(Url("https", FillHost(kind, i), <<"/", PathNames[i]>>))]

\* the runs appended to a base: below and at MIN_PUBLISH, beyond TARGET, and
\* MIN_PUBLISH stories of one outlet, allowlisted or not
Fillers ==
  { <<>>, Filler("diverse", MIN_PUBLISH - 1), Filler("diverse", MIN_PUBLISH),
    Filler("diverse", MaxFill), Filler("nypost", MIN_PUBLISH),
    Filler("blog", MIN_PUBLISH) }

Batches == {b \o f : b \in Bases, f \in Fillers}

\* What json.loads returns: an array, an object (its values in key order,
\* each an array or not), another JSON value, or JSONDecodeError
ListPayload(items) == [kind |-> "list", items |-> items, values |-> <<>>]

DictPayload(values) == [kind |-> "dict", items |-> <<>>, values |-> values]

ArrayValue(items) == [islist |-> TRUE, items |-> items]

OtherValue == [islist |-> FALSE, items |-> <<>>]

Payloads ==
  {[kind |-> k, items |-> <<>>, values |-> <<>>] : k \in {"invalid", "scalar"}}
  \cup {ListPayload(b) : b \in Batches}
  \cup {DictPayload(<<ArrayValue(b), OtherValue, ArrayValue(b)>>) : b \in Bases}

(***************************************************************************)
(* The run, statement by statement from line 163 on                        *)
(***************************************************************************)
VARIABLES pc, payload, data, validated, out, local_file, repo_calls, repo_doc,
          txt, cleaned

vars == <<pc, payload, data, validated, out, local_file, repo_calls, repo_doc,
          txt, cleaned>>

NoFile == [written |-> FALSE, content |-> <<>>]

Init ==
  /\ pc = "parse"
  /\ payload \in Payloads
  /\ data = <<>>
  /\ validated = <<>>
  /\ out = <<>>
  /\ local_file = NoFile
  /\ repo_calls = <<>>
  /\ repo_doc = NoFile
  /\ txt = <<>>
  /\ cleaned = <<>>

\* lines 168-174: flat.extend(v) for every value that is a list
RECURSIVE Flatten(_)
Flatten(values) ==
  IF values = <<>> THEN <<>>
  ELSE (IF Head(values).islist THEN Head(values).items ELSE <<>>)
       \o Flatten(Tail(values))

normalize(p) ==
  IF p.kind = "list" THEN p.items
  ELSE IF p.kind = "dict" THEN Flatten(p.values)
  ELSE <<>>

\* lines 163-174
Parse ==
  /\ pc = "parse"
  /\ \/ /\ payload.kind = "invalid"
        /\ pc' = "exit_json"
        /\ data' = data
     \/ /\ payload.kind # "invalid"
        /\ data' = normalize(payload)
        /\ pc' = "validate"
  /\ UNCHANGED <<payload, validated, out, local_file, repo_calls, repo_doc, txt, cleaned>>

\* lines 183-207
Validate ==
  /\ pc = "validate"
  /\ \/ /\ \E i \in 1..Len(data) : ValidateRaises(data[i])
        /\ pc' = "crash_validate"
        /\ validated' = validated
     \/ /\ \A i \in 1..Len(data) : ~ValidateRaises(data[i])
        /\ validated' = validate_all(data)
        /\ pc' = "fallback"
  /\ UNCHANGED <<payload, data, out, local_file, repo_calls, repo_doc, txt, cleaned>>

\* lines 209-232; `out` and `validated` name the same list
Fallback ==
  /\ pc = "fallback"
  /\ validated' = fallback_merge(validated, data)
  /\ out' = validated'
  /\ pc' = "rebalance"
  /\ UNCHANGED <<payload, data, local_file, repo_calls, repo_doc, txt, cleaned>>

\* lines 235-237
Rebalance ==
  /\ pc = "rebalance"
  /\ LET r == rebalance_by_domain(out, data, TARGET, PER_DOMAIN_CAP)
     IN  /\ out' = IF r.raised THEN out ELSE r.result
         /\ pc' = IF r.raised THEN "crash_rebalance" ELSE "check"
  /\ UNCHANGED <<payload, data, validated, local_file, repo_calls, repo_doc, txt, cleaned>>

\* the empty-result test never true
never_empty(o) == FALSE

\* line 239: `if not out`
is_empty_result(o) == o = <<>>

\* lines 239-243
CheckAndCap ==
  /\ pc = "check"
  /\ \/ /\ is_empty_result(out)
        /\ pc' = "exit_empty"
        /\ out' = out
     \/ /\ ~is_empty_result(out)
        /\ out' = SubSeq(out, 1, Min(Len(out), FINAL_CAP))
        /\ pc' = "write"
  /\ UNCHANGED <<payload, data, validated, local_file, repo_calls, repo_doc, txt, cleaned>>

\* lines 246-254
WriteFile ==
  /\ pc = "write"
  /\ local_file' = [written |-> TRUE, content |-> Serialize(out)]
  /\ pc' = "push"
  /\ UNCHANGED <<payload, data, validated, out, repo_calls, repo_doc, txt, cleaned>>

\* lines 256-259: create_file stores the document or raises
CreateFile ==
  /\ pc = "push"
  /\ repo_calls' = Append(repo_calls, "create_file")
  /\ \/ /\ repo_doc' = [written |-> TRUE, content |-> local_file.content]
        /\ pc' = "done"
     \/ /\ repo_doc' = repo_doc
        /\ pc' = "update"
  /\ UNCHANGED <<payload, data, validated, out, local_file, txt, cleaned>>

\* lines 260-262: get_contents then update_file, or one of them raises
UpdateFile ==
  /\ pc = "update"
  /\ \/ /\ repo_calls' = repo_calls \o <<"get_contents", "update_file">>
        /\ repo_doc' = [written |-> TRUE, content |-> local_file.content]
        /\ pc' = "done"
     \/ /\ repo_calls' = Append(repo_calls, "get_contents")
        /\ repo_doc' = repo_doc
        /\ pc' = "crash_update"
  /\ UNCHANGED <<payload, data, validated, out, local_file, txt, cleaned>>

Next ==
  \/ Parse
  \/ Validate
  \/ Fallback
  \/ Rebalance
  \/ CheckAndCap
  \/ WriteFile
  \/ CreateFile
  \/ UpdateFile

Spec == Init /\ [][Next]_vars

(***************************************************************************)
(* clean_text on its own: the text is drawn from every sequence of at most  *)
(* MaxTextLen atoms of CleanAtoms, and cleaned once, then again.            *)
(***************************************************************************)
MaxTextLen == 4

CleanAtoms == {"Analysis", "economic", "report", ":", " ", "\t", "w"}

Texts == UNION {[1..n -> CleanAtoms] : n \in 0..MaxTextLen}

InitClean ==
  /\ pc = "clean"
  /\ txt \in Texts
  /\ cleaned = <<>>
  /\ payload = [kind |-> "scalar", items |-> <<>>, values |-> <<>>]
  /\ data = <<>>
  /\ validated = <<>>
  /\ out = <<>>
  /\ local_file = NoFile
  /\ repo_calls = <<>>
  /\ repo_doc = NoFile

CleanOnce ==
  /\ pc = "clean"
  /\ cleaned' = <<clean_text(txt)>>
  /\ pc' = "cleaned_once"
  /\ UNCHANGED <<payload, data, validated, out, local_file, repo_calls, repo_doc, txt>>

CleanAgain ==
  /\ pc = "cleaned_once"
  /\ cleaned' = Append(cleaned, clean_text(cleaned[1]))
  /\ pc' = "cleaned_twice"
  /\ UNCHANGED <<payload, data, validated, out, local_file, repo_calls, repo_doc, txt>>

NextClean == CleanOnce \/ CleanAgain

SpecClean == InitClean /\ [][NextClean]_vars

(***************************************************************************)
(* Properties                                                              *)
(***************************************************************************)

\* the control points at which `out` holds what rebalance_by_domain returned
PostRebalance == {"check", "exit_empty", "write", "push", "update", "done", "crash_update"}

\* the DomainKey of a record: base_domain of the netloc of its source
KeyOf(r) == base_domain(urlparse(r.source).netloc)

\* C4: cleaning is idempotent: clean_text(clean_text(x)) = clean_text(x) for
\* every text x, texts that start with two label prefixes included.
CleanIdempotent == pc = "cleaned_twice" => cleaned[2] = cleaned[1]

\* the number of records of a sequence whose DomainKey is d
KeyCount(seq, d) == Cardinality({j \in 1..Len(seq) : KeyOf(seq[j]) = d})

HasVia(seq, v) == \E i \in 1..Len(seq) : seq[i].via = v

\* C1: for every DomainKey d and every batch, at most per_domain_cap (3) records
\* of the final output have a source whose host maps to d via base_domain; this
\* covers runs where the fallback merge fired and where the backfill added records.
PerDomainCapHolds ==
  /\ pc \in PostRebalance =>
       \A i \in 1..Len(out) : KeyCount(out, KeyOf(out[i])) <= PER_DOMAIN_CAP
  /\ \A i \in 1..Len(local_file.content) :
       KeyCount(local_file.content, KeyOf(local_file.content[i])) <= PER_DOMAIN_CAP

\* a run in which the fallback merge fired, the backfill added a record, and the
\* cap dropped records of a DomainKey that now occurs exactly 3 times
PerDomainCapWitness ==
  /\ pc = "check"
  /\ HasVia(out, "fallback")
  /\ HasVia(out, "backfill")
  /\ \E i \in 1..Len(validated) :
       /\ KeyCount(validated, KeyOf(validated[i])) > PER_DOMAIN_CAP
       /\ KeyCount(out, KeyOf(validated[i])) = PER_DOMAIN_CAP

\* C2: the sequence rebalance_by_domain returns and the sequence serialized have
\* at most target_count (20) records, whatever the sizes of the preferred
\* sequence and of the raw pool.
LengthBounded ==
  /\ pc \in PostRebalance => Len(out) <= TARGET
  /\ Len(local_file.content) <= TARGET
  /\ Len(repo_doc.content) <= TARGET

\* a published run in which the loops had picked more than 20 records
LengthBoundedWitness ==
  /\ pc = "done"
  /\ Len(repo_doc.content) = TARGET
  /\ Len(pick_all_valid(EmptyPick, validated, PER_DOMAIN_CAP).picked) > TARGET

\* The Allowlist Policy of the specification, letter case ignored: the host is
\* an allowlist entry or a subdomain of one
IsAllowlisted(host) ==
  \E d \in ALLOWED_DOMAINS :
    LowerText(host) = d \/ EndsWith(LowerText(host), <<".">> \o d)

\* the same with the host compared as written
IsAllowlistedExact(host) ==
  \E d \in ALLOWED_DOMAINS : host = d \/ EndsWith(host, <<".">> \o d)

IsDenylisted(host) == LowerText(host) \in DISALLOWED

\* the source of a ValidatedRecord: http(s), a host that is allowlisted and not
\* denylisted, a path that is not empty once trimmed of "/"
IsValidatedSource(s) ==
  LET p == urlparse(s)
  IN  /\ p.ok
      /\ p.scheme \in {<<"http">>, <<"https">>}
      /\ p.netloc # <<>>
      /\ IsAllowlisted(p.netloc)
      /\ ~IsDenylisted(p.netloc)
      /\ strip_slash(p.path) # <<>>

\* C3 as stated: every record of the final output is a ValidatedRecord, whether
\* it came through the validator, the fallback merge or the backfill.
AllOutputValidated ==
  pc \in PostRebalance =>
    \A i \in 1..Len(out) : IsValidatedSource(out[i].source)

\* C3 amended: every record of the final output has a non-empty title, details
\* and source and a source urlparse accepts; the records the validator built are
\* ValidatedRecords; the records the backfill built have a non-empty host that
\* matches the allowlist as written; the records of the fallback merge carry no
\* further guarantee, and occur only when the validator accepted fewer than
\* MIN_PUBLISH records.
OutputSourceGuarantees ==
  pc \in PostRebalance =>
    /\ \A i \in 1..Len(out) :
         /\ out[i].title # <<>> /\ out[i].details # <<>> /\ out[i].source # <<>>
         /\ urlparse(out[i].source).ok
         /\ out[i].via = "validator" => IsValidatedSource(out[i].source)
         /\ out[i].via = "backfill" =>
              /\ urlparse(out[i].source).netloc # <<>>
              /\ IsAllowlistedExact(urlparse(out[i].source).netloc)
    /\ HasVia(out, "fallback") =>
         Cardinality({i \in 1..Len(validated) : validated[i].via = "validator"})
           < MIN_PUBLISH

\* a final output that holds a validator record, a backfill record and a
\* fallback record whose source is not that of a ValidatedRecord
OutputSourceWitness ==
  /\ pc = "check"
  /\ HasVia(out, "validator")
  /\ HasVia(out, "backfill")
  /\ \E i \in 1..Len(out) :
       out[i].via = "fallback" /\ ~IsValidatedSource(out[i].source)

\* C5: a sequence reaches the persistence collaborator only after a non-empty
\* final sequence was produced: after a JSON decode error or with an empty
\* rebalanced sequence the run aborts, no file is written and no create or
\* update call is made; an empty candidate pool ends in the empty-result abort.
PublishOnlyNonEmpty ==
  /\ (local_file.written \/ repo_doc.written \/ repo_calls # <<>>) =>
       /\ payload.kind # "invalid"
       /\ out # <<>>
       /\ local_file.content = Serialize(out)
  /\ pc \in {"exit_json", "exit_empty"} =>
       ~local_file.written /\ ~repo_doc.written /\ repo_calls = <<>>
  /\ payload.kind = "invalid" => pc \in {"parse", "exit_json", "clean", "cleaned_once", "cleaned_twice"}
  /\ (pc \in PostRebalance /\ out = <<>>) => pc \in {"check", "exit_empty"}
  /\ (payload.kind \in {"list", "dict"} /\ normalize(payload) = <<>>) =>
       pc \in {"parse", "validate", "fallback", "rebalance", "check", "exit_empty"}

\* the empty-result abort of a run whose payload parsed to candidates that all
\* failed (none was usable)
PublishOnlyNonEmptyWitness ==
  /\ pc = "exit_empty"
  /\ data # <<>>
  /\ ~local_file.written
  /\ repo_calls = <<>>

\* the value the code reads as a mapping's source, and its trimmed text
SourceValue(it) == Or(it.source, it.url)

DetailsValue(it) == Or(it.details, it.summary)

\* every value the run applies a str method to is a string
AllStrings(d) ==
  \A i \in 1..Len(d) :
    d[i].isdict => IsStr(d[i].title) /\ IsStr(DetailsValue(d[i])) /\ IsStr(SourceValue(d[i]))

\* a mapping whose cleaned title, cleaned details and trimmed source are non-empty
Usable(it) ==
  /\ it.isdict
  /\ IsStr(it.title) /\ IsStr(DetailsValue(it)) /\ IsStr(SourceValue(it))
  /\ clean_text(it.title) # <<>>
  /\ clean_text(DetailsValue(it)) # <<>>
  /\ strip(SourceValue(it)) # <<>>

UsableSources(d) == {strip(SourceValue(d[i])) : i \in {j \in 1..Len(d) : Usable(d[j])}}

ParseableUsableSources(d) == {s \in UsableSources(d) : urlparse(s).ok}

Aborted == {"exit_json", "exit_empty", "crash_validate", "crash_rebalance"}

RECURSIVE IsSubseq(_, _)
IsSubseq(a, b) ==
  IF a = <<>> THEN TRUE
  ELSE IF b = <<>> THEN FALSE
  ELSE IF Head(a) = Head(b) THEN IsSubseq(Tail(a), Tail(b))
  ELSE IsSubseq(a, Tail(b))

OnlyVia(seq, v) == LET T(r) == r.via = v IN SelectSeq(seq, T)

\* C7: after the fallback merge the merged sequence starts with exactly the
\* validator-accepted records in their order and every fallback record comes
\* after them; in the final output every validator record comes before every
\* fallback or backfill record, and none was replaced.
ValidatedPrecedeFallback ==
  /\ pc = "rebalance" =>
       LET v == validate_all(data)
       IN  /\ Len(validated) >= Len(v)
           /\ SubSeq(validated, 1, Len(v)) = v
           /\ \A i \in (Len(v) + 1)..Len(validated) : validated[i].via = "fallback"
  /\ pc \in PostRebalance =>
       /\ \A i, j \in 1..Len(out) :
            (i < j /\ out[j].via = "validator") => out[i].via = "validator"
       /\ \A i, j \in 1..Len(out) :
            (i < j /\ out[j].via = "fallback") => out[i].via # "backfill"
       /\ IsSubseq(OnlyVia(out, "validator"), validate_all(data))

\* a final output with validator, fallback and backfill records
ValidatedPrecedeWitness ==
  /\ pc = "check"
  /\ HasVia(out, "validator")
  /\ HasVia(out, "fallback")
  /\ HasVia(out, "backfill")

\* C8: for every batch no two records of the final output share a source URL,
\* duplicates among the validator-accepted records included.
NoDuplicateSources ==
  pc \in PostRebalance =>
    \A i, j \in 1..Len(out) : i # j => out[i].source # out[j].source

\* a source the validator must reject: denylisted host, host neither an
\* allowlist entry nor a subdomain of one, or a path empty once trimmed of "/"
RejectedByPolicy(s) ==
  LET p == urlparse(s)
  IN  \/ IsDenylisted(p.netloc)
      \/ ~IsAllowlisted(p.netloc)
      \/ strip_slash(p.path) = <<>>

AfterValidate == {"fallback", "rebalance", "crash_rebalance"} \cup PostRebalance

\* C9: the validator never accepts a candidate whose host is denylisted, whose
\* host is neither an allowlist entry nor a subdomain of one, or whose path is
\* empty after trimming "/", whatever its title, details and the letter case of
\* the host: the candidate is dropped without raising and is no member of the
\* validated sequence.
ValidatorRejects ==
  /\ pc \in AfterValidate =>
       /\ \A i \in 1..Len(validated) :
            validated[i].via = "validator" => ~RejectedByPolicy(validated[i].source)
       /\ \A i \in 1..Len(data) :
            (data[i].isdict /\ RejectedByPolicy(strip(SourceValue(data[i])))) =>
              \A j \in 1..Len(validated) :
                validated[j].via = "validator" =>
                  validated[j].source # strip(SourceValue(data[i]))
  /\ pc = "crash_validate" =>
       \E i \in 1..Len(data) : data[i].isdict /\ ~IsStr(SourceValue(data[i]))

\* the validator accepted some candidates of a batch that also held a candidate
\* with a denylisted host (in capitals) and one with an empty path
ValidatorRejectsWitness ==
  /\ pc = "fallback"
  /\ validated # <<>>
  /\ \E i, j \in 1..Len(data) :
       /\ data[i].isdict /\ data[j].isdict
       /\ LET p == urlparse(strip(SourceValue(data[i])))
              q == urlparse(strip(SourceValue(data[j])))
          IN  /\ IsDenylisted(p.netloc) /\ p.netloc \notin DISALLOWED
              /\ IsAllowlisted(q.netloc) /\ strip_slash(q.path) = <<>>

\* a mapping the backfill may take: title, details and source non-empty once
\* trimmed, and a host that matches the allowlist as written
Eligible(it) ==
  /\ it.isdict
  /\ IsStr(it.title) /\ IsStr(DetailsValue(it)) /\ IsStr(SourceValue(it))
  /\ strip(it.title) # <<>>
  /\ strip(DetailsValue(it)) # <<>>
  /\ strip(SourceValue(it)) # <<>>
  /\ urlparse(strip(SourceValue(it))).ok
  /\ IsAllowlistedExact(urlparse(strip(SourceValue(it))).netloc)

EligibleSources(d) == {strip(SourceValue(d[i])) : i \in {j \in 1..Len(d) : Eligible(d[j])}}

ItemKey(it) == base_domain(urlparse(strip(SourceValue(it))).netloc)

\* no eligible candidate is left over: its source is among the result's sources
\* or its DomainKey occurs exactly per_cap times in the result
NoEligibleLeftOver ==
  \A i \in 1..Len(data) :
    Eligible(data[i]) =>
      \/ \E j \in 1..Len(out) : out[j].source = strip(SourceValue(data[i]))
      \/ KeyCount(out, ItemKey(data[i])) = PER_DOMAIN_CAP

\* a pool whose candidates are mappings that all share one DomainKey
OneKeyPool(d) ==
  /\ d # <<>>
  /\ \A i \in 1..Len(d) :
       d[i].isdict /\ IsStr(SourceValue(d[i])) /\ urlparse(strip(SourceValue(d[i]))).ok
  /\ \A i, j \in 1..Len(d) : ItemKey(d[i]) = ItemKey(d[j])

DistinctSources(d) ==
  \A i, j \in 1..Len(d) : i # j => SourceValue(d[i]) # SourceValue(d[j])

\* the eligible sources when the allowlist match ignores letter case, as the
\* validator's does
EligibleSourcesAnyCase(d) ==
  {strip(SourceValue(d[i])) :
     i \in {j \in 1..Len(d) :
              /\ d[j].isdict
              /\ IsStr(d[j].title) /\ IsStr(DetailsValue(d[j])) /\ IsStr(SourceValue(d[j]))
              /\ strip(d[j].title) # <<>>
              /\ strip(DetailsValue(d[j])) # <<>>
              /\ strip(SourceValue(d[j])) # <<>>
              /\ urlparse(strip(SourceValue(d[j]))).ok
              /\ IsAllowlisted(urlparse(strip(SourceValue(d[j]))).netloc)}}

\* C10 as stated (on pools with pairwise distinct sources, the allowlist match
\* read without regard to letter case): whenever rebalance_by_domain returns
\* fewer than target records no eligible candidate is left over, and a pool
\* whose candidates all share one DomainKey yields exactly
\* min(per_cap, number of distinct eligible sources) records.
BackfillMaximalExact ==
  (pc = "check" /\ Len(out) < TARGET) =>
    /\ NoEligibleLeftOver
    /\ (OneKeyPool(data) /\ DistinctSources(data)) =>
         Len(out) = Min(PER_DOMAIN_CAP, Cardinality(EligibleSourcesAnyCase(data)))

\* C10 amended: whenever rebalance_by_domain returns fewer than target records
\* no eligible candidate is left over; a pool whose candidates all share one
\* DomainKey yields at most per_cap records, and exactly per_cap when it holds
\* at least per_cap distinct eligible sources.
BackfillMaximal ==
  (pc = "check" /\ Len(out) < TARGET) =>
    /\ NoEligibleLeftOver
    /\ OneKeyPool(data) =>
         /\ Len(out) <= PER_DOMAIN_CAP
         /\ Cardinality(EligibleSources(data)) >= PER_DOMAIN_CAP =>
              Len(out) = PER_DOMAIN_CAP

\* the backfill added a record and passed over an eligible candidate whose
\* DomainKey was full
BackfillMaximalWitness ==
  /\ pc = "check"
  /\ Len(out) < TARGET
  /\ HasVia(out, "backfill")
  /\ \E i \in 1..Len(data) :
       /\ Eligible(data[i])
       /\ \A j \in 1..Len(out) : out[j].source # strip(SourceValue(data[i]))

====
